---- MODULE Spec2Model ----
(***************************************************************************)
(* Model of the washing-machine support bot of src/disman.py: the Gemini   *)
(* classifier adapter (WashingMachineAnalyzer), the Mantis ticket store    *)
(* adapter (MantisHubIntegration), the SQLite ticket index (TicketDatabase)*)
(* and the orchestrating handlers of DiscordWashingMachineBot.             *)
(*                                                                         *)
(* Python values are modelled as strings.  A dictionary the classifier     *)
(* returned is a record over the five keys the code reads; the value       *)
(* ABSENT stands for a missing key and NONSTR for a JSON value that is not *)
(* a string (null, a number).  PyNone is Python's None.                    *)
(***************************************************************************)
EXTENDS Integers, Sequences, FiniteSets, TLC

VARIABLES
    pending_tickets,  \* self.pending_tickets: message id -> offer
    user_tickets,     \* self.user_tickets: user id -> latest ticket id
    tickets,          \* rows of the SQLite table tickets, keyed by ticket_id
    clock,            \* last value datetime.now() returned
    mantis,           \* the remote ticket store: ids assigned, requests received
    discord,          \* the chat platform: message ids assigned so far
    inv               \* the handler invocations (coroutines) and their positions

vars == <<pending_tickets, user_tickets, tickets, clock, mantis, discord, inv>>

----------------------------------------------------------------------------
(* Python values *)

ABSENT == "<absent>"
NONSTR == "<non-string>"
PyNone == "<None>"

\* str.title() on the strings the model uses.
Title(s) ==
    CASE s = "low" -> "Low"
      [] s = "medium" -> "Medium"
      [] s = "high" -> "High"
      [] s = "critical" -> "Critical"
      [] s = "mechanical" -> "Mechanical"
      [] s = "detergent" -> "Detergent"
      [] s = "other" -> "Other"
      [] s = "general" -> "General"
      [] s = "" -> ""
      [] OTHER -> s

\* dict.get(key, default) on a modelled dictionary field.
DictGet(v, default) == IF v = ABSENT THEN default ELSE v

\* str(x) of the id in the store's reply: data.get('issue', {}).get('id')
\* is None when the reply carries no id, and str(None) is "None".
PyStr(reply) == IF reply.has_id THEN ToString(reply.id) ELSE "None"

----------------------------------------------------------------------------
(* WashingMachineAnalyzer *)

NonObject ==
    [obj |-> FALSE, action |-> ABSENT, response |-> ABSENT, severity |-> ABSENT,
     category |-> ABSENT, urgency |-> ABSENT]

\* A fallback that offers a solution instead of a ticket.
fallback_offering_solution ==
    [obj |-> TRUE, action |-> "provide_solution", response |-> "apology",
     severity |-> "medium", category |-> "other", urgency |-> "normal"]

_fallback_response ==
    [obj |-> TRUE, action |-> "create_ticket", response |-> "apology",
     severity |-> "medium", category |-> "other", urgency |-> "normal"]

\* The reply text is a sequence of tokens: "obj" is a JSON object (v holds
\* it), "scalar" a JSON value that is no object, "junk" free text without
\* braces, "brace" free text holding both a { and a } that is no JSON.
JsonParses(text) == Len(text) = 1 /\ text[1].t \in {"obj", "scalar"}

json_loads(text) == IF text[1].t = "obj" THEN text[1].v ELSE NonObject

HasBrace(tok) == tok.t \in {"obj", "brace"}

\* re.search(r'\{.*\}', text, re.DOTALL): greedy, from the first { to the last }.
re_search(text) ==
    LET idx == {i \in 1..Len(text) : HasBrace(text[i])}
    IN  IF idx = {} THEN <<>>
        ELSE LET lo == CHOOSE i \in idx : \A j \in idx : i <= j
                 hi == CHOOSE i \in idx : \A j \in idx : j <= i
             IN  SubSeq(text, lo, hi)

analyze_issue(resp) ==
    IF resp.outcome # "ok" THEN _fallback_response
    ELSE IF resp.status # 200 THEN _fallback_response
    ELSE IF ~resp.has_text THEN _fallback_response
    ELSE IF JsonParses(resp.text) THEN json_loads(resp.text)
    ELSE LET json_match == re_search(resp.text)
         IN  IF json_match # <<>>
             THEN IF JsonParses(json_match) THEN json_loads(json_match)
                  ELSE _fallback_response
             ELSE _fallback_response

----------------------------------------------------------------------------
(* MantisHubIntegration.create_ticket *)

\* The map with 'major' as the default of get.
severity_map_default_major(severity) ==
    CASE severity = "low" -> "trivial"
      [] severity = "medium" -> "minor"
      [] severity = "high" -> "major"
      [] OTHER -> "major"

severity_map_get(severity) ==
    CASE severity = "low" -> "trivial"
      [] severity = "medium" -> "minor"
      [] severity = "high" -> "major"
      [] OTHER -> "minor"

ticket_data(title, description, severity, category, user_id) ==
    [summary |-> title, description |-> description,
     category |-> "Washing Machine Support", priority |-> "normal",
     severity |-> severity_map_get(severity), reproducibility |-> "always",
     additional_information |-> ToString(user_id)]

\* What create_ticket returns for the store's reply.
create_ticket_result(reply) ==
    IF reply.outcome # "ok" THEN PyNone
    ELSE IF reply.status = 201 THEN PyStr(reply)
    ELSE PyNone

\* An issue as GET /issues/{id} gives it: summary and the names of status,
\* priority and severity, each possibly missing.
Snapshot(summary, status, priority, severity) ==
    [some |-> TRUE, summary |-> summary, status |-> status,
     priority |-> priority, severity |-> severity]

\* None, as get_ticket_status returns it.
NoTicketInfo ==
    [some |-> FALSE, summary |-> ABSENT, status |-> ABSENT,
     priority |-> ABSENT, severity |-> ABSENT]

ReadReply(outcome, status, issues) ==
    [outcome |-> outcome, status |-> status, issues |-> issues]

NoRead == ReadReply("none", 0, <<>>)

\* The status test left out: the first issue of any body is returned.
get_ticket_status_any_status(reply) ==
    IF reply.outcome # "ok" THEN NoTicketInfo
    ELSE IF reply.issues # <<>> THEN reply.issues[1] ELSE NoTicketInfo

\* What get_ticket_status returns for the reply to its GET: issues[0] of a
\* 200 body, None for an empty list, another status, a timeout or an error.
get_ticket_status(reply) ==
    IF reply.outcome # "ok" THEN NoTicketInfo
    ELSE IF reply.status = 200
         THEN IF reply.issues # <<>> THEN reply.issues[1] ELSE NoTicketInfo
         ELSE NoTicketInfo

----------------------------------------------------------------------------
(* TicketDatabase *)

\* datetime.now() read twice: the second reading is not earlier, and on a
\* clock of finite resolution it may be the same.
Now == {clock, clock + 1}

\* The INSERT left out: the index stays as it was.
save_ticket_skipped(db, ticket_id, user_id, username, issue, severity, category, now) == db

save_ticket(db, ticket_id, user_id, username, issue, severity, category, now) ==
    [k \in DOMAIN db \cup {ticket_id} |->
        IF k = ticket_id
        THEN [user_id |-> user_id, username |-> username,
              issue_description |-> issue, status |-> "Open",
              severity |-> severity, category |-> category,
              created_at |-> now, updated_at |-> now]
        ELSE db[k]]

RECURSIVE Orderings(_, _)
\* ORDER BY created_at DESC over the ids S of db: every order SQLite may
\* return (rows of equal created_at come in any order).
Orderings(db, S) ==
    IF S = {} THEN {<<>>}
    ELSE UNION {{<<k>> \o rest : rest \in Orderings(db, S \ {k})} :
                k \in {m \in S : \A n \in S :
                           db[n].created_at <= db[m].created_at}}

get_user_tickets(db, user_id) ==
    Orderings(db, {k \in DOMAIN db : db[k].user_id = user_id})

----------------------------------------------------------------------------
(* Inputs of DiscordWashingMachineBot *)

MaxInv == 3
Slots == 1..MaxInv

Users == {1, 2}

\* message.author.display_name
DisplayName(u) == IF u = 1 THEN "ann" ELSE "bob"

\* message.content of a support request: a greeting, or a mention of the
\* bot followed by the description of the problem.
Contents == {"hello", "<@bot> water leaking everywhere"}

\* content.replace(f'<@{self.user.id}>', '').strip()
CleanContent(c) ==
    IF c = "<@bot> water leaking everywhere" THEN "water leaking everywhere"
    ELSE c

IsGreeting(c) == c = "" \/ c \in {"hi", "hello", "help"}

Obj(a, r, s, c, u) ==
    [obj |-> TRUE, action |-> a, response |-> r, severity |-> s,
     category |-> c, urgency |-> u]

Tok(t, v) == [t |-> t, v |-> v]
Junk == Tok("junk", NonObject)
Brace == Tok("brace", NonObject)
Scalar == Tok("scalar", NonObject)

Http(outcome, status, has_text, text) ==
    [outcome |-> outcome, status |-> status, has_text |-> has_text,
     text |-> text]

\* Replies of the classifier service that fail: no reply in time, a
\* transport error, a status other than 200, no candidate text, text
\* without JSON, text whose {...} span is no JSON.
FailedReplies ==
    {Http("timeout", 0, FALSE, <<>>), Http("error", 0, FALSE, <<>>),
     Http("ok", 500, FALSE, <<>>), Http("ok", 200, FALSE, <<>>),
     Http("ok", 200, TRUE, <<>>), Http("ok", 200, TRUE, <<Junk>>),
     Http("ok", 200, TRUE, <<Junk, Brace>>)}

\* Replies whose text parses, as the handlers meet them.
SolveObj == Obj("provide_solution", "steps", "low", "detergent", "normal")
TicketObj == Obj("create_ticket", "explanation", "high", "mechanical", "high")
ParsedReplies ==
    {Http("ok", 200, TRUE, <<Tok("obj", SolveObj)>>),
     Http("ok", 200, TRUE, <<Junk, Tok("obj", TicketObj), Junk>>),
     Http("ok", 200, TRUE, <<Tok("obj", [TicketObj EXCEPT !.severity = NONSTR])>>),
     Http("ok", 200, TRUE, <<Tok("obj", [SolveObj EXCEPT !.severity = ABSENT])>>),
     Http("ok", 200, TRUE, <<Scalar>>)}

\* Every object the classifier may answer with: the values the prompt asks
\* for, a string outside them, a missing key, a value that is no string.
Objects ==
    {Obj(a, r, sv, c, u) :
        a \in {"provide_solution", "create_ticket", "escalate", ABSENT},
        r \in {"steps", ABSENT},
        sv \in {"low", "medium", "high", "critical", ABSENT, NONSTR},
        c \in {"mechanical", ABSENT, NONSTR},
        u \in {"normal", "high", "asap", ABSENT}}

\* The object alone, the object inside free text, two objects in free text.
ObjectReplies ==
    UNION {{Http("ok", 200, TRUE, <<Tok("obj", o)>>),
            Http("ok", 200, TRUE, <<Junk, Tok("obj", o), Junk>>),
            Http("ok", 200, TRUE, <<Tok("obj", o), Junk, Tok("obj", o)>>)} :
           o \in Objects}

ClassifierReplies == FailedReplies \cup ParsedReplies \cup ObjectReplies

\* The inputs of the interleaved handlers: one request that is no greeting,
\* a reply that resolves and one that escalates.
MainContents == {"<@bot> water leaking everywhere"}
MainReplies ==
    {Http("ok", 200, TRUE, <<Tok("obj", SolveObj)>>),
     Http("ok", 200, TRUE, <<Junk, Tok("obj", TicketObj), Junk>>)}

\* Replies of the ticket store to a create request: 201 with the id of the
\* issue it created (the id is filled in when the store answers), 201
\* without an id, another status, no reply in time, a transport error.
StoreReply(outcome, status, has_id) ==
    [outcome |-> outcome, status |-> status, has_id |-> has_id, id |-> 0]

StoreReplies ==
    {StoreReply("ok", 201, TRUE), StoreReply("ok", 201, FALSE),
     StoreReply("ok", 500, FALSE), StoreReply("timeout", 0, FALSE),
     StoreReply("error", 0, FALSE)}

----------------------------------------------------------------------------
(* DiscordWashingMachineBot: state *)

Bot == 0
EmptyMap == [k \in {} |-> 0]
NoHttp == Http("none", 0, FALSE, <<>>)
NoDescription ==
    [user |-> 0, issue |-> "", severity |-> "", category |-> "",
     urgency |-> "", channel |-> "", analysis |-> ""]
NoRequest ==
    [summary |-> <<>>, description |-> NoDescription, category |-> "",
     priority |-> "", severity |-> "", reproducibility |-> "",
     additional_information |-> ""]

NoListing == [found |-> 0, shown |-> <<>>, footer |-> 0]

\* The requests an invocation has sent: session.post of analyze_issue and
\* of create_ticket, session.get of get_ticket_status.
NoCalls == [classify |-> 0, create |-> 0, read |-> 0]

NoEmbed ==
    [title |-> PyNone, summary |-> "", status |-> "", priority |-> "",
     severity |-> ""]

\* "status" command: the id typed, the id asked for, the store's reply, what
\* get_ticket_status returned and the embed made of it.
NoStatus ==
    [arg |-> PyNone, query |-> PyNone, reply |-> NoRead,
     info |-> NoTicketInfo, embed |-> NoEmbed]

\* A handler invocation that has not started.
IdleInv ==
    [pc |-> "idle", kind |-> "none", user |-> Bot, emoji |-> "", content |-> "",
     target |-> 0, upstream |-> NoHttp, analysis |-> NonObject, issue |-> "",
     request |-> NoRequest, ticket_id |-> PyNone,
     tag |-> "none", rendered |-> <<>>, msg |-> 0, result |-> "none",
     raised |-> FALSE, listing |-> NoListing, calls |-> NoCalls,
     status |-> NoStatus]

Init ==
    /\ pending_tickets = EmptyMap
    /\ user_tickets = [u \in Users |-> PyNone]
    /\ tickets = EmptyMap
    /\ clock = 0
    /\ mantis = [next |-> 1]
    /\ discord = [next |-> 1]
    /\ inv = [i \in Slots |-> IdleInv]

\* The next invocation to start is the lowest idle slot.
CanStart(i) == inv[i].pc = "idle" /\ \A j \in Slots : j < i => inv[j].pc # "idle"

\* Nothing in the state tells the users apart yet: the first to act is
\* called user 1.
Pristine ==
    /\ pending_tickets = EmptyMap
    /\ tickets = EmptyMap
    /\ \A u \in Users : user_tickets[u] = PyNone
    /\ \A i \in Slots : inv[i].pc = "idle"

Authors == IF Pristine THEN {1} ELSE Users

----------------------------------------------------------------------------
(* create_support_ticket *)

TicketCategory(analysis) == DictGet(analysis.category, "general")
TicketSeverity(analysis) == DictGet(analysis.severity, "medium")

\* f"Washing Machine Issue - {category.title()}"
TicketTitle(analysis) ==
    <<"Washing Machine Issue - ", Title(TicketCategory(analysis))>>

\* The description made of defaults instead of the classification given.
TicketDescriptionDefaults(author, issue, analysis) ==
    [user |-> author, issue |-> issue, severity |-> "medium",
     category |-> "general", urgency |-> "normal", channel |-> "DM",
     analysis |-> "No additional analysis available"]

TicketDescription(author, issue, analysis) ==
    [user |-> author, issue |-> issue, severity |-> TicketSeverity(analysis),
     category |-> TicketCategory(analysis),
     urgency |-> DictGet(analysis.urgency, "normal"), channel |-> "DM",
     analysis |-> DictGet(analysis.response, "No additional analysis available")]

\* The part of create_support_ticket before the store is awaited: None has
\* no title(), so a category that is no string raises before any request.
BeginCreate(s, author, issue, analysis) ==
    IF TicketCategory(analysis) = NONSTR
    THEN [s EXCEPT !.issue = issue, !.analysis = analysis, !.raised = TRUE]
    ELSE [s EXCEPT !.issue = issue, !.analysis = analysis, !.pc = "create",
                   !.calls.create = @ + 1,
                   !.request = ticket_data(TicketTitle(analysis),
                                   TicketDescription(author, issue, analysis),
                                   TicketSeverity(analysis),
                                   TicketCategory(analysis), author)]

\* An exception leaving the handler's body: handle_support_request replies
\* with an error message, on_reaction_add has no handler and ends.
Unwind(s) ==
    IF ~s.raised THEN s
    ELSE IF s.kind = "handle"
         THEN [s EXCEPT !.pc = "reply", !.tag = "Error", !.raised = FALSE]
         ELSE [s EXCEPT !.pc = "done", !.result = "Raised"]

----------------------------------------------------------------------------
(* handle_support_request and send_solution_response *)

\* The embed of send_solution_response reads analysis['response'],
\* analysis['severity'].title() and analysis['category'].title().
SolutionRaises(a) ==
    \/ a.response = ABSENT
    \/ a.severity \in {ABSENT, NONSTR}
    \/ a.category \in {ABSENT, NONSTR}

\* From the classifier's answer to the next await of handle_support_request.
Dispatch(s, a) ==
    IF ~a.obj \/ a.action = ABSENT
    THEN [s EXCEPT !.analysis = a, !.raised = TRUE]
    ELSE IF a.action = "provide_solution"
    THEN IF SolutionRaises(a)
         THEN [s EXCEPT !.analysis = a, !.raised = TRUE]
         ELSE [s EXCEPT !.analysis = a, !.pc = "reply", !.tag = "Guidance"]
    ELSE BeginCreate(s, s.user, CleanContent(s.content), a)

HandleStart(i, contents) ==
    /\ CanStart(i)
    /\ \E u \in Authors, c \in contents :
          LET s == [inv[i] EXCEPT !.kind = "handle", !.user = u, !.content = c]
          IN  inv' = [inv EXCEPT ![i] =
                        IF IsGreeting(CleanContent(c))
                        THEN [s EXCEPT !.pc = "reply", !.tag = "Help"]
                        ELSE [s EXCEPT !.pc = "classify",
                                       !.calls.classify = @ + 1]]
    /\ UNCHANGED <<pending_tickets, user_tickets, tickets, clock, mantis,
                   discord>>

ClassifyReturn(i, replies) ==
    /\ inv[i].pc = "classify"
    /\ \E resp \in replies :
          inv' = [inv EXCEPT ![i] =
                    Unwind(Dispatch([inv[i] EXCEPT !.upstream = resp],
                                    analyze_issue(resp)))]
    /\ UNCHANGED <<pending_tickets, user_tickets, tickets, clock, mantis,
                   discord>>

\* msg.add_reaction returned: the offer is stored under the reply's id.
AddReaction(i) ==
    /\ inv[i].pc = "react"
    /\ pending_tickets' =
          [m \in DOMAIN pending_tickets \cup {inv[i].msg} |->
              IF m = inv[i].msg
              THEN [user_id |-> inv[i].user, issue |-> inv[i].content,
                    analysis |-> inv[i].analysis]
              ELSE pending_tickets[m]]
    /\ inv' = [inv EXCEPT ![i].pc = "done", ![i].result = "Guidance"]
    /\ UNCHANGED <<user_tickets, tickets, clock, mantis, discord>>

----------------------------------------------------------------------------
(* create_support_ticket after the store answered *)

\* The store created an issue and said so.
StoreCreated(reply) == reply.outcome = "ok" /\ reply.status = 201 /\ reply.has_id

\* The test left out: None passes too.
TruthyAlways(ticket_id) == TRUE

\* if ticket_id: a string is true unless empty, None is false.
Truthy(ticket_id) == ticket_id # PyNone /\ ticket_id # ""

\* A retry put in: after a first failure the create request is sent again.
AfterCreateRetry(s, ticket_id) ==
    IF Truthy(ticket_id)
    THEN IF TicketSeverity(s.analysis) = NONSTR
         THEN [s EXCEPT !.ticket_id = ticket_id, !.raised = TRUE]
         ELSE [s EXCEPT !.ticket_id = ticket_id,
                        !.pc = "reply", !.tag = "TicketCreated"]
    ELSE IF s.calls.create < 2
         THEN [s EXCEPT !.calls.create = @ + 1]
         ELSE [s EXCEPT !.pc = "reply", !.tag = "TicketCreationFailed"]

\* The success embed reads analysis.get('severity', 'medium').title(): a
\* severity that is no string raises once the row and the pointer are
\* written.
AfterCreate(s, ticket_id) ==
    IF Truthy(ticket_id)
    THEN IF TicketSeverity(s.analysis) = NONSTR
         THEN [s EXCEPT !.ticket_id = ticket_id, !.raised = TRUE]
         ELSE [s EXCEPT !.ticket_id = ticket_id,
                        !.pc = "reply", !.tag = "TicketCreated"]
    ELSE [s EXCEPT !.pc = "reply", !.tag = "TicketCreationFailed"]

CreateReturn(i, replies) ==
    /\ inv[i].pc = "create"
    /\ \E r \in replies :
          LET reply == [r EXCEPT !.id = IF r.has_id THEN mantis.next ELSE 0]
              ticket_id == create_ticket_result(reply)
              s == inv[i]
          IN  /\ mantis' = IF StoreCreated(reply)
                           THEN [mantis EXCEPT !.next = @ + 1] ELSE mantis
              /\ inv' = [inv EXCEPT ![i] = Unwind(AfterCreate(s, ticket_id))]
              /\ IF Truthy(ticket_id)
                 THEN \E now \in Now :
                        /\ clock' = now
                        /\ tickets' = save_ticket(tickets, ticket_id,
                              ToString(s.user), DisplayName(s.user), s.issue,
                              TicketSeverity(s.analysis),
                              TicketCategory(s.analysis), now)
                        /\ user_tickets' =
                              [user_tickets EXCEPT ![s.user] = ticket_id]
                 ELSE UNCHANGED <<clock, tickets, user_tickets>>
    /\ UNCHANGED <<pending_tickets, discord>>

----------------------------------------------------------------------------
(* message.reply, and what each handler does once it returned *)

Reply(i) ==
    /\ inv[i].pc = "reply"
    /\ LET s == [inv[i] EXCEPT !.rendered = Append(@, inv[i].tag)]
       IN  IF s.kind = "escalate"
           THEN \* on_reaction_add: del pending_tickets[reaction.message.id]
                /\ inv' = [inv EXCEPT ![i] =
                             [s EXCEPT !.pc = "done", !.result = s.tag,
                                 !.raised = s.target \notin DOMAIN pending_tickets]]
                /\ pending_tickets' =
                      [m \in DOMAIN pending_tickets \ {s.target} |->
                          pending_tickets[m]]
                /\ UNCHANGED discord
           ELSE IF s.tag = "Guidance"
           THEN \* send_solution_response goes on to msg.add_reaction
                /\ inv' = [inv EXCEPT ![i] =
                             [s EXCEPT !.pc = "react", !.msg = discord.next]]
                /\ discord' = [discord EXCEPT !.next = @ + 1]
                /\ UNCHANGED pending_tickets
           ELSE /\ inv' = [inv EXCEPT ![i] =
                             [s EXCEPT !.pc = "done", !.result = s.tag]]
                /\ UNCHANGED <<discord, pending_tickets>>
    /\ UNCHANGED <<user_tickets, tickets, clock, mantis>>

----------------------------------------------------------------------------
(* on_reaction_add *)

\* The comparison left out: any user passes.
IsOwnerAnyone(ticket_info, u) == TRUE

\* ticket_info['user_id'] == user.id
IsOwner(ticket_info, u) == ticket_info.user_id = u

\* Reactions of the bot itself and other emojis return at once: they are
\* no escalation signal.
EscalateStart(i) ==
    /\ CanStart(i)
    /\ \E u \in Authors, m \in 0..(discord.next - 1) :
          LET s == [inv[i] EXCEPT !.kind = "escalate", !.user = u,
                                  !.emoji = "ticket", !.target = m]
          IN  inv' = [inv EXCEPT ![i] =
                IF m \notin DOMAIN pending_tickets
                THEN [s EXCEPT !.pc = "done", !.result = "UnknownOffer"]
                ELSE IF ~IsOwner(pending_tickets[m], u)
                THEN [s EXCEPT !.pc = "done", !.result = "NotOwner"]
                ELSE Unwind(BeginCreate(s, u, pending_tickets[m].issue,
                                        pending_tickets[m].analysis))]
    /\ UNCHANGED <<pending_tickets, user_tickets, tickets, clock, mantis,
                   discord>>

----------------------------------------------------------------------------
(* list_tickets *)

ListLimit == 5

Min(a, b) == IF a < b THEN a ELSE b

\* tickets[-5:]
ShownOldest(rows) == SubSeq(rows, Len(rows) - Min(ListLimit, Len(rows)) + 1, Len(rows))

\* tickets[:5]
Shown(rows) == SubSeq(rows, 1, Min(ListLimit, Len(rows)))

\* What the embed says for the rows the query returned: "Found n
\* ticket(s)", a field per row of tickets[:5], and the footer "Showing
\* latest 5 tickets out of n total" when there are more.
Listing(rows) ==
    [found |-> Len(rows), shown |-> Shown(rows),
     footer |-> IF Len(rows) > ListLimit THEN Len(rows) ELSE 0]

ListStart(i) ==
    /\ CanStart(i)
    /\ \E u \in Authors :
         \E rows \in get_user_tickets(tickets, ToString(u)) :
            LET s == [inv[i] EXCEPT !.kind = "tickets", !.user = u, !.pc = "reply"]
            IN  inv' = [inv EXCEPT ![i] =
                          IF rows = <<>>
                          THEN [s EXCEPT !.tag = "NoTickets"]
                          ELSE [s EXCEPT !.tag = "Tickets",
                                         !.listing = Listing(rows)]]
    /\ UNCHANGED <<pending_tickets, user_tickets, tickets, clock, mantis,
                   discord>>

----------------------------------------------------------------------------
(* The handlers running concurrently *)

Next ==
    \E i \in Slots :
        \/ HandleStart(i, MainContents)
        \/ ClassifyReturn(i, MainReplies)
        \/ AddReaction(i)
        \/ CreateReturn(i, StoreReplies)
        \/ Reply(i)
        \/ EscalateStart(i)

Spec == Init /\ [][Next]_vars

----------------------------------------------------------------------------
(* One support request, over every reply of the classifier *)

NextOne ==
    \/ HandleStart(1, Contents)
    \/ ClassifyReturn(1, ClassifierReplies)
    \/ AddReaction(1)
    \/ CreateReturn(1, StoreReplies)
    \/ Reply(1)

SpecOne == Init /\ [][NextOne]_vars

----------------------------------------------------------------------------
(* Requests and "tickets" commands one after the other, the index growing *)

MaxRows == 7

\* The coroutine ended; its slot serves the next event.
Recycle(i) ==
    /\ inv[i].pc = "done"
    /\ inv' = [inv EXCEPT ![i] = IdleInv]
    /\ UNCHANGED <<pending_tickets, user_tickets, tickets, clock, mantis,
                   discord>>

EscalatingReplies == {Http("ok", 200, TRUE, <<Tok("obj", TicketObj)>>)}
IndexStoreReplies == {StoreReply("ok", 201, TRUE), StoreReply("ok", 500, FALSE)}

NextIndex ==
    \/ Cardinality(DOMAIN tickets) < MaxRows /\ HandleStart(1, MainContents)
    \/ ClassifyReturn(1, EscalatingReplies)
    \/ CreateReturn(1, IndexStoreReplies)
    \/ Reply(1)
    \/ ListStart(1)
    \/ Recycle(1)

SpecIndex == Init /\ [][NextIndex]_vars

----------------------------------------------------------------------------
(* TicketDatabase on its own: save_ticket called with any ticket *)

MaxClock == 3

SavedIds == {"1", "2"}

\* One call of TicketDatabase.save_ticket.
SaveTicket ==
    \E ticket_id \in SavedIds, u \in Users, severity \in {"medium", "high"} :
      \E now \in Now :
        /\ now <= MaxClock
        /\ clock' = now
        /\ tickets' = save_ticket(tickets, ticket_id, ToString(u),
                         DisplayName(u), "water leaking everywhere",
                         severity, "mechanical", now)
        /\ UNCHANGED <<pending_tickets, user_tickets, mantis, discord, inv>>

NextSave == SaveTicket

SpecSave == Init /\ [][NextSave]_vars

----------------------------------------------------------------------------
(* check_status *)

\* The embed of check_status: ticket_info.get('summary', 'N/A') and
\* ticket_info.get(key, {}).get('name', 'Unknown') for the other fields.
StatusEmbed(ticket_id, ticket_info) ==
    [title |-> ticket_id,
     summary |-> DictGet(ticket_info.summary, "N/A"),
     status |-> DictGet(ticket_info.status, "Unknown"),
     priority |-> DictGet(ticket_info.priority, "Unknown"),
     severity |-> DictGet(ticket_info.severity, "Unknown")]

\* "!wm status" with or without a ticket id.
StatusArgs == {PyNone, "1", "None"}

FullSnapshot ==
    Snapshot("Washing Machine Issue - Mechanical", "assigned", "normal", "major")

BareSnapshot == Snapshot(ABSENT, "resolved", ABSENT, ABSENT)

ReadReplies ==
    {ReadReply("ok", 200, <<FullSnapshot>>),
     ReadReply("ok", 200, <<BareSnapshot, FullSnapshot>>),
     ReadReply("ok", 200, <<>>),
     ReadReply("ok", 404, <<>>),
     ReadReply("ok", 500, <<FullSnapshot>>),
     ReadReply("timeout", 0, <<>>),
     ReadReply("error", 0, <<>>)}

\* Up to the await of get_ticket_status: without an id the user's latest
\* ticket is asked for, and without one of those the command answers at
\* once.
StatusStart(i, args) ==
    /\ CanStart(i)
    /\ \E u \in Authors, arg \in args :
          LET ticket_id == IF Truthy(arg) THEN arg ELSE user_tickets[u]
              s == [inv[i] EXCEPT !.kind = "status", !.user = u,
                                  !.status.arg = arg]
          IN  inv' = [inv EXCEPT ![i] =
                        IF ~Truthy(ticket_id)
                        THEN [s EXCEPT !.pc = "reply", !.tag = "NoRecentTicket"]
                        ELSE [s EXCEPT !.pc = "read",
                                       !.status.query = ticket_id,
                                       !.calls.read = @ + 1]]
    /\ UNCHANGED <<pending_tickets, user_tickets, tickets, clock, mantis,
                   discord>>

StatusReturn(i, replies) ==
    /\ inv[i].pc = "read"
    /\ \E reply \in replies :
          LET ticket_info == get_ticket_status(reply)
              s == [inv[i] EXCEPT !.status.reply = reply,
                                  !.status.info = ticket_info,
                                  !.pc = "reply"]
          IN  inv' = [inv EXCEPT ![i] =
                        IF ticket_info.some
                        THEN [s EXCEPT !.tag = "Status",
                                       !.status.embed =
                                          StatusEmbed(s.status.query, ticket_info)]
                        ELSE [s EXCEPT !.tag = "NotFound"]]
    /\ UNCHANGED <<pending_tickets, user_tickets, tickets, clock, mantis,
                   discord>>

----------------------------------------------------------------------------
(* Requests, escalations and "status" commands one after the other *)

MaxSeq == 2

\* Messages rendered, tickets created and clock ticks so far.
Spent == (discord.next - 1) + (mantis.next - 1) + clock

\* The classifier resolves, escalates, times out or answers 500.
SeqReplies ==
    MainReplies \cup {Http("timeout", 0, FALSE, <<>>), Http("ok", 500, FALSE, <<>>)}

NextSeq ==
    \/ Spent < MaxSeq /\ HandleStart(1, MainContents)
    \/ ClassifyReturn(1, SeqReplies)
    \/ AddReaction(1)
    \/ CreateReturn(1, StoreReplies)
    \/ Reply(1)
    \/ EscalateStart(1)
    \/ StatusStart(1, StatusArgs)
    \/ StatusReturn(1, ReadReplies)
    \/ Recycle(1)

SpecSeq == Init /\ [][NextSeq]_vars

----------------------------------------------------------------------------
(* The same, with message.reply failing *)

MaxFault == 3

\* message.reply raises (discord.HTTPException).  Inside the try block of
\* handle_support_request the except clause replies with the error message;
\* that reply, the help reply and every reply of on_reaction_add are
\* outside any try block: the exception ends the coroutine, and
\* on_reaction_add does not get to its del.
ReplyRaises(i) ==
    /\ inv[i].pc = "reply"
    /\ inv' = [inv EXCEPT ![i] =
                 IF /\ inv[i].kind = "handle"
                    /\ inv[i].tag \in {"Guidance", "TicketCreated",
                                       "TicketCreationFailed"}
                 THEN [inv[i] EXCEPT !.tag = "Error"]
                 ELSE [inv[i] EXCEPT !.pc = "done", !.result = "Raised",
                                     !.raised = TRUE]]
    /\ UNCHANGED <<pending_tickets, user_tickets, tickets, clock, mantis,
                   discord>>

NextFault ==
    \/ Spent < MaxFault /\ HandleStart(1, MainContents)
    \/ ClassifyReturn(1, MainReplies)
    \/ AddReaction(1)
    \/ CreateReturn(1, StoreReplies)
    \/ Reply(1)
    \/ ReplyRaises(1)
    \/ Spent < MaxFault /\ EscalateStart(1)
    \/ Recycle(1)

SpecFault == Init /\ [][NextFault]_vars

----------------------------------------------------------------------------
(* Requests and "status" commands across restarts of the process *)

\* The process ends and starts again: __init__ makes pending_tickets and
\* user_tickets empty, the coroutines in flight are gone, the SQLite file
\* and the remote services are as they were.
Restart ==
    /\ pending_tickets' = EmptyMap
    /\ user_tickets' = [u \in Users |-> PyNone]
    /\ inv' = [i \in Slots |-> IdleInv]
    /\ UNCHANGED <<tickets, clock, mantis, discord>>

NextRestart ==
    \/ Spent < MaxSeq /\ HandleStart(1, MainContents)
    \/ ClassifyReturn(1, EscalatingReplies)
    \/ CreateReturn(1, StoreReplies)
    \/ Reply(1)
    \/ StatusStart(1, StatusArgs)
    \/ StatusReturn(1, ReadReplies)
    \/ Recycle(1)
    \/ Restart

SpecRestart == Init /\ [][NextRestart]_vars

----------------------------------------------------------------------------
(* Properties *)

Escalations(m) == {i \in Slots : inv[i].kind = "escalate" /\ inv[i].target = m}

\* An invocation reached the ticket-creation path: it issued a create request.
ReachedCreate(i) == inv[i].request # NoRequest

\* C1: for every offer, at most one escalate invocation reaches the
\* ticket-creation path, also when two are in flight at once; the others
\* end as UnknownOffer without a create request.
C1_AtMostOneEscalation ==
    \A m \in 1..(discord.next - 1) :
        /\ Cardinality({i \in Escalations(m) : ReachedCreate(i)}) <= 1
        /\ \A i, j \in Escalations(m) :
              (i # j /\ ReachedCreate(i) /\ inv[i].user = inv[j].user)
                 => inv[j].result = "UnknownOffer" /\ ~ReachedCreate(j)

\* C2: an escalate call for a registered offer by someone who is not its
\* owner ends as NotOwner at once, issues no create request and leaves the
\* registry, the index, the pointers and the store as they were.
C2_NotOwnerRejected ==
    [][\A i \in Slots :
         (/\ inv[i].pc = "idle"
          /\ inv'[i].kind = "escalate"
          /\ inv'[i].target \in DOMAIN pending_tickets
          /\ pending_tickets[inv'[i].target].user_id # inv'[i].user)
         => (/\ inv'[i].pc = "done"
             /\ inv'[i].result = "NotOwner"
             /\ ~ReachedCreate(i)'
             /\ pending_tickets' = pending_tickets
             /\ tickets' = tickets
             /\ user_tickets' = user_tickets
             /\ mantis' = mantis)]_vars

\* C2 witness: an offer was refused to another user and its owner then
\* escalated it into a ticket.
C2_OwnerEscalatesAfterRefusal ==
    \E i, j \in Slots :
        /\ i < j
        /\ inv[i].kind = "escalate" /\ inv[i].result = "NotOwner"
        /\ inv[j].kind = "escalate" /\ inv[j].target = inv[i].target
        /\ inv[j].result = "TicketCreated"

\* C3: no create request is in flight for an offer that is still in the
\* registry.
C3_RemovedBeforeCreate ==
    \A i \in Slots :
        (inv[i].kind = "escalate" /\ inv[i].pc = "create")
            => inv[i].target \notin DOMAIN pending_tickets

\* The global state a handler can write.
botState == <<pending_tickets, user_tickets, tickets, clock>>

\* C4: when the store adapter returns None to handle_support_request, the
\* failure message is what gets rendered and neither the index nor the
\* requester's pointer (nor the registry) changes, from the adapter's
\* return to the end of the invocation.
C4_CreateFailureLeavesState ==
    [][\A i \in Slots :
         /\ (/\ inv[i].kind = "handle" /\ inv[i].pc = "create"
             /\ inv'[i].pc # "create" /\ inv'[i].ticket_id = PyNone)
            => (/\ inv'[i].pc = "reply"
                /\ inv'[i].tag = "TicketCreationFailed"
                /\ botState' = botState)
         /\ (/\ inv[i].kind = "handle" /\ inv[i].pc = "reply"
             /\ inv[i].tag = "TicketCreationFailed" /\ inv'[i] # inv[i])
            => (/\ inv'[i].pc = "done"
                /\ inv'[i].result = "TicketCreationFailed"
                /\ inv'[i].rendered = <<"TicketCreationFailed">>
                /\ ~inv'[i].raised
                /\ botState' = botState)]_vars

\* C4 witness: a request of a user who already has a ticket ended in
\* TicketCreationFailed and the pointer still names the earlier ticket.
C4_FailedAfterEarlierTicket ==
    \E i \in Slots :
        /\ inv[i].kind = "handle" /\ inv[i].result = "TicketCreationFailed"
        /\ inv[i].ticket_id = PyNone
        /\ user_tickets[inv[i].user] # PyNone
        /\ user_tickets[inv[i].user] \in DOMAIN tickets

\* C5: a request classified create_ticket for which the store adapter
\* returned the id t the store assigned ends as TicketCreated with a row for t of the requester in
\* the index and the requester's pointer at t; the store was asked with the
\* title made from the category and the severity the map gives.
C5_TicketCreated ==
    \A i \in Slots :
        (/\ inv[i].kind = "handle" /\ inv[i].pc = "done"
         /\ inv[i].analysis.action = "create_ticket"
         /\ inv[i].ticket_id \notin {PyNone, "None"})
        => (/\ inv[i].result = "TicketCreated"
            /\ inv[i].ticket_id \in DOMAIN tickets
            /\ tickets[inv[i].ticket_id].user_id = ToString(inv[i].user)
            /\ user_tickets[inv[i].user] = inv[i].ticket_id
            /\ inv[i].request.summary[2]
                 = Title(DictGet(inv[i].analysis.category, "general"))
            /\ inv[i].request.severity \in {"trivial", "minor", "major"})

\* The values a classification may take.
ValidClassification(a) ==
    /\ a.obj
    /\ a.action \in {"provide_solution", "create_ticket"}
    /\ a.severity \in {"low", "medium", "high"}
    /\ a.urgency \in {"normal", "high"}
    /\ a.category \notin {ABSENT, NONSTR}

Classified(i) ==
    inv[i].kind = "handle" /\ inv[i].upstream # NoHttp

\* C6: whatever the classifier service replied, the classification
\* analyze_issue returned holds enumerated values only.
C6_ClassificationEnumerated ==
    \A i \in Slots : Classified(i) => ValidClassification(inv[i].analysis)

\* The classifier call failed: no reply, a transport error, a status other
\* than 200, no text, or text holding no JSON value at all.
ClassifierFailed(resp) ==
    \/ resp.outcome \in {"timeout", "error"}
    \/ resp.status # 200
    \/ ~resp.has_text
    \/ \A k \in 1..Len(resp.text) : resp.text[k].t \notin {"obj", "scalar"}

\* C7: after a failed classifier call the classification is the fixed
\* fallback (create_ticket, medium, other, normal), nothing is raised, and
\* the request goes down the ticket-creation path to end as TicketCreated or
\* TicketCreationFailed.
C7_FallbackOnClassifierFailure ==
    \A i \in Slots :
        (Classified(i) /\ ClassifierFailed(inv[i].upstream))
        => (/\ inv[i].analysis.obj
            /\ inv[i].analysis.action = "create_ticket"
            /\ inv[i].analysis.severity = "medium"
            /\ inv[i].analysis.category = "other"
            /\ inv[i].analysis.urgency = "normal"
            /\ ~inv[i].raised
            /\ ReachedCreate(i)
            /\ inv[i].pc \in {"create", "reply", "done"}
            /\ inv[i].pc = "reply"
                 => inv[i].tag \in {"TicketCreated", "TicketCreationFailed"}
            /\ inv[i].pc = "done"
                 => /\ inv[i].result \in {"TicketCreated", "TicketCreationFailed"}
                    /\ inv[i].rendered = <<inv[i].result>>)

\* C7 witness: the classifier timed out and the request ended with a ticket.
C7_TimeoutThenTicket ==
    \E i \in Slots :
        /\ inv[i].upstream.outcome = "timeout"
        /\ inv[i].pc = "done" /\ inv[i].result = "TicketCreated"

\* C8: no invocation ends without having rendered a response.
C8_EveryInvocationResponds ==
    \A i \in Slots : inv[i].pc = "done" => inv[i].rendered # <<>>

RowsOf(u) == {k \in DOMAIN tickets : tickets[k].user_id = ToString(u)}

Range(f) == {f[k] : k \in DOMAIN f}

\* C10: the "tickets" command shows at most 5 rows, all of the requester,
\* none twice, none older than a row of the requester it leaves out, and
\* with more than 5 rows it reports how many the requester really has.
C10_ListShowsLatestFive ==
    \A i \in Slots :
        (inv[i].kind = "tickets" /\ inv[i].tag = "Tickets")
        => LET l == inv[i].listing
               mine == RowsOf(inv[i].user)
           IN  /\ Len(l.shown) <= 5
               /\ Len(l.shown) = Min(5, Cardinality(mine))
               /\ Range(l.shown) \subseteq mine
               /\ Cardinality(Range(l.shown)) = Len(l.shown)
               /\ \A k \in mine \ Range(l.shown) : \A sh \in Range(l.shown) :
                     tickets[k].created_at <= tickets[sh].created_at
               /\ l.found = Cardinality(mine)
               /\ Cardinality(mine) > 5 => l.footer = Cardinality(mine)

\* C10 witness: a user with six rows was shown five and told of six.
C10_TruncatedListing ==
    \E i \in Slots :
        /\ inv[i].kind = "tickets" /\ inv[i].pc = "done"
        /\ Len(inv[i].listing.shown) = 5
        /\ inv[i].listing.footer = 6
        /\ \E u \in Users : u # inv[i].user /\ RowsOf(u) # {}

\* The number the store gave the ticket with id k; the store numbers its
\* tickets in the order it creates them.
IdNum(k) == CHOOSE n \in 1..mantis.next : ToString(n) = k

\* C11: whatever order the index may return the rows of a user in, the list
\* holds exactly the rows of that user, each once, and a row always stands
\* before every row created earlier, with strictly decreasing creation
\* times.
C11_StrictlyNewestFirst ==
    \A u \in Users : \A rows \in get_user_tickets(tickets, ToString(u)) :
        /\ Range(rows) = RowsOf(u)
        /\ Len(rows) = Cardinality(RowsOf(u))
        /\ \A a, b \in 1..Len(rows) :
              a < b => /\ tickets[rows[a]].created_at > tickets[rows[b]].created_at
                       /\ IdNum(rows[a]) > IdNum(rows[b])

\* C12: the index keeps one row per ticket id, and saving a ticket whose id
\* is already indexed changes neither the creation time of any row already
\* there nor the order of those rows by creation time.
C12_SaveIsIdempotent ==
    [][\A k \in DOMAIN tickets :
         /\ k \in DOMAIN tickets'
         /\ tickets'[k].created_at = tickets[k].created_at
         /\ \A m \in DOMAIN tickets :
               (tickets[k].created_at < tickets[m].created_at)
                  => (tickets'[k].created_at < tickets'[m].created_at)]_vars

\* C13: every step of a support request whose classification says
\* provide_solution issues no create request and leaves the store, the
\* index and the pointers alone; the request renders the guidance, then
\* stores exactly one offer under the id of the rendered message, an id the
\* registry did not hold, owned by the requester and holding the message
\* and the classification, and ends as Guidance.
C13_GuidanceRegistersOffer ==
    [][\A i \in Slots :
         (/\ inv'[i] # inv[i]
          /\ inv'[i].kind = "handle"
          /\ inv'[i].upstream # NoHttp
          /\ inv'[i].analysis.obj
          /\ inv'[i].analysis.action = "provide_solution")
         => (/\ inv'[i].request = NoRequest
             /\ mantis' = mantis
             /\ tickets' = tickets
             /\ user_tickets' = user_tickets
             /\ inv'[i].pc \in {"reply", "react", "done"}
             /\ inv'[i].pc = "reply" => inv'[i].tag = "Guidance"
             /\ inv'[i].pc = "react" => inv'[i].rendered = <<"Guidance">>
             /\ inv[i].pc # "react" => pending_tickets' = pending_tickets
             /\ inv'[i].pc = "done" => inv[i].pc = "react"
             /\ inv[i].pc = "react"
                  => (/\ inv[i].msg \notin DOMAIN pending_tickets
                      /\ DOMAIN pending_tickets'
                           = DOMAIN pending_tickets \cup {inv[i].msg}
                      /\ \A m \in DOMAIN pending_tickets :
                            pending_tickets'[m] = pending_tickets[m]
                      /\ pending_tickets'[inv[i].msg].user_id = inv[i].user
                      /\ pending_tickets'[inv[i].msg].issue = inv[i].content
                      /\ pending_tickets'[inv[i].msg].analysis = inv[i].analysis
                      /\ inv'[i].pc = "done"
                      /\ inv'[i].result = "Guidance"
                      /\ inv'[i].rendered = <<"Guidance">>))]_vars

\* C14: in every invocation, under any interleaving, the classification is
\* there before the create request is issued, nothing is written or rendered
\* while the create request is in flight, the index and the pointer are
\* written only in the step in which a create request returns an id, to the
\* invocation that issued it, and TicketCreated is rendered only once the
\* row is in the index and the pointer is set.
C14_StepsInOrder ==
    /\ [](\A i \in Slots :
            /\ (ReachedCreate(i) /\ inv[i].kind = "handle")
                 => (Classified(i) /\ inv[i].analysis = analyze_issue(inv[i].upstream))
            /\ ReachedCreate(i) => inv[i].analysis.obj
            /\ inv[i].pc = "create"
                 => (inv[i].ticket_id = PyNone /\ inv[i].rendered = <<>>)
            /\ (inv[i].pc = "reply" /\ inv[i].tag = "TicketCreated")
                 => (/\ inv[i].ticket_id \in DOMAIN tickets
                     /\ user_tickets[inv[i].user] # PyNone))
    /\ [][/\ (tickets' # tickets \/ user_tickets' # user_tickets)
              => \E i \in Slots :
                    /\ inv[i].pc = "create" /\ inv'[i].pc # "create"
                    /\ inv'[i].ticket_id # PyNone
                    /\ inv'[i].rendered = <<>>
                    /\ inv'[i].ticket_id \in DOMAIN tickets'
                    /\ tickets'[inv'[i].ticket_id].user_id = ToString(inv[i].user)
                    /\ user_tickets'[inv[i].user] = inv'[i].ticket_id
          /\ \A i \in Slots :
                (/\ Len(inv'[i].rendered) > Len(inv[i].rendered)
                 /\ inv[i].tag = "TicketCreated")
                => (/\ inv[i].ticket_id \in DOMAIN tickets
                    /\ user_tickets[inv[i].user] # PyNone)]_vars

\* C14 witness: a support request and an escalation both ended with a
\* ticket rendered, each ticket in the index.
C14_BothPathsCreated ==
    \E i, j \in Slots :
        /\ inv[i].kind = "handle" /\ inv[i].result = "TicketCreated"
        /\ inv[j].kind = "escalate" /\ inv[j].result = "TicketCreated"
        /\ inv[i].ticket_id # inv[j].ticket_id
        /\ {inv[i].ticket_id, inv[j].ticket_id} \subseteq DOMAIN tickets

\* C15: an invocation sends each kind of request at most once, whatever
\* came back: a support request at most one classifier request and one
\* create request and no read, an escalation at most one create request and
\* nothing else, a "status" command at most one read and nothing else; and
\* once a request has been answered the invocation is never awaiting that
\* kind of request again.
C15_NoRetry ==
    /\ [](\A i \in Slots :
            /\ inv[i].calls.classify <= 1
            /\ inv[i].calls.create <= 1
            /\ inv[i].calls.read <= 1
            /\ inv[i].kind = "handle" => inv[i].calls.read = 0
            /\ inv[i].kind = "escalate"
                 => (inv[i].calls.classify = 0 /\ inv[i].calls.read = 0)
            /\ inv[i].kind = "status"
                 => (inv[i].calls.classify = 0 /\ inv[i].calls.create = 0)
            /\ inv[i].pc = "classify" => inv[i].calls.classify = 1
            /\ inv[i].pc = "create" => inv[i].calls.create = 1
            /\ inv[i].pc = "read" => inv[i].calls.read = 1)
    /\ [][\A i \in Slots :
            /\ (inv[i].pc = "classify" /\ inv'[i] # inv[i])
                 => inv'[i].pc # "classify"
            /\ (inv[i].pc = "create" /\ inv'[i] # inv[i])
                 => inv'[i].pc \in {"reply", "done"}
            /\ (inv[i].pc = "read" /\ inv'[i] # inv[i])
                 => inv'[i].pc = "reply"
            /\ (inv[i].pc \in {"reply", "react"} /\ inv'[i] # inv[i])
                 => inv'[i].pc \in {"reply", "react", "done"}]_vars

\* C15 witness: a support request whose classifier request timed out and
\* whose create request then failed ended after one request of each kind.
C15_FailedTwiceAskedOnce ==
    \E i \in Slots :
        /\ inv[i].kind = "handle" /\ inv[i].pc = "done"
        /\ inv[i].upstream.outcome = "timeout"
        /\ inv[i].result = "TicketCreationFailed"
        /\ inv[i].calls = [classify |-> 1, create |-> 1, read |-> 0]

\* The adapter has nothing to return: no reply in time, a transport error,
\* a status other than 200, or a 200 body with no issue in it.
AdapterNull(reply) ==
    \/ reply.outcome \in {"timeout", "error"}
    \/ reply.status # 200
    \/ reply.issues = <<>>

C17_OfferPresentOnceVisible ==
    \A i \in Slots :
        (/\ inv[i].kind = "handle"
         /\ inv[i].rendered = <<"Guidance">>
         /\ ~\E j \in Escalations(inv[i].msg) :
                inv[j].user = inv[i].user /\ ReachedCreate(j))
        => inv[i].msg \in DOMAIN pending_tickets

\* C18: once an escalation that was accepted as the owner's has ended,
\* however it ended, the offer it was for is not in the registry.
C18_OfferGoneAfterEscalation ==
    \A j \in Slots :
        (/\ inv[j].kind = "escalate" /\ inv[j].pc = "done"
         /\ inv[j].result \notin {"UnknownOffer", "NotOwner"})
        => inv[j].target \notin DOMAIN pending_tickets

\* C19: an escalation never asks the classifier; the create request it
\* sends is made of the issue text and of the severity, category, urgency
\* and guidance the offer held when the escalation was accepted, in the name
\* of the user who reacted, and the row it saves is that user's and holds
\* the same issue, severity and category.
C19_EscalationUsesStoredOffer ==
    /\ [](\A i \in Slots :
            inv[i].kind = "escalate"
               => (/\ inv[i].pc # "classify"
                   /\ inv[i].upstream = NoHttp
                   /\ inv[i].calls.classify = 0))
    /\ [][\A i \in Slots :
            /\ (inv[i].pc = "idle" /\ inv'[i].kind = "escalate" /\ ReachedCreate(i)')
               => (/\ inv'[i].target \in DOMAIN pending_tickets
                   /\ LET o == pending_tickets[inv'[i].target]
                          r == inv'[i].request
                      IN  /\ r.description.issue = o.issue
                          /\ r.description.severity = o.analysis.severity
                          /\ r.description.category = o.analysis.category
                          /\ r.description.urgency = o.analysis.urgency
                          /\ r.description.analysis = o.analysis.response
                          /\ r.description.user = inv'[i].user
                          /\ r.additional_information = ToString(inv'[i].user)
                          /\ r.summary[2] = Title(o.analysis.category)
                          /\ r.severity = severity_map_get(o.analysis.severity)
                          /\ inv'[i].issue = o.issue
                          /\ inv'[i].analysis = o.analysis)
            /\ (/\ inv[i].kind = "escalate" /\ inv[i].pc = "create"
                /\ inv'[i].pc # "create" /\ inv'[i].ticket_id # PyNone)
               => (/\ inv'[i].ticket_id \in DOMAIN tickets'
                   /\ LET row == tickets'[inv'[i].ticket_id]
                      IN  /\ row.user_id = ToString(inv[i].user)
                          /\ row.username = DisplayName(inv[i].user)
                          /\ row.issue_description = inv[i].request.description.issue
                          /\ row.severity = inv[i].request.description.severity
                          /\ row.category = inv[i].request.description.category
                   /\ user_tickets'[inv[i].user] = inv'[i].ticket_id)]_vars

\* C19 witness: an escalation ended with a ticket whose row holds the
\* message of the requester and the severity the classifier gave it.
C19_EscalatedTicketSaved ==
    \E i \in Slots :
        /\ inv[i].kind = "escalate" /\ inv[i].result = "TicketCreated"
        /\ inv[i].ticket_id \in DOMAIN tickets
        /\ tickets[inv[i].ticket_id].user_id = ToString(inv[i].user)
        /\ tickets[inv[i].ticket_id].issue_description
             = "<@bot> water leaking everywhere"
        /\ tickets[inv[i].ticket_id].severity = "low"
        /\ inv[i].request.severity = "trivial"

\* C20: a pointer that is set names a ticket the index lists first for that
\* user, in some order the index may return that user's rows in.
C20_PointerIsFirstListed ==
    \A u \in Users :
        user_tickets[u] # PyNone
           => \E rows \in get_user_tickets(tickets, ToString(u)) :
                 rows # <<>> /\ rows[1] = user_tickets[u]

\* C21: a "status" command typed without an id by a user who has a row in
\* the index asks the store, once, for a ticket the index lists first for
\* that user; the command says that there is no recent ticket only to a
\* user with no row in the index, and then without asking the store.
C21_StatusOfLatestTicket ==
    \A i \in Slots :
        inv[i].kind = "status" =>
            /\ (inv[i].status.arg = PyNone /\ RowsOf(inv[i].user) # {})
                 => (/\ inv[i].tag # "NoRecentTicket"
                     /\ inv[i].calls.read = 1
                     /\ \E rows \in get_user_tickets(tickets, ToString(inv[i].user)) :
                           rows[1] = inv[i].status.query)
            /\ inv[i].tag = "NoRecentTicket"
                 => (RowsOf(inv[i].user) = {} /\ inv[i].calls.read = 0)

\* The ids the store has given to the tickets it created.
AssignedIds == {ToString(n) : n \in 1..(mantis.next - 1)}

\* C22: every ticket id in the index, in a pointer or held by an invocation
\* that renders TicketCreated is an id the store assigned to a ticket it
\* created.
C22_OnlyAssignedIds ==
    /\ DOMAIN tickets \subseteq AssignedIds
    /\ \A u \in Users : user_tickets[u] # PyNone => user_tickets[u] \in AssignedIds
    /\ \A i \in Slots :
          inv[i].tag = "TicketCreated" => inv[i].ticket_id \in AssignedIds

\* The rows of user u in db, by ticket id.
RowsIn(db, u) ==
    [k \in {t \in DOMAIN db : db[t].user_id = ToString(u)} |-> db[k]]

\* C23: a step of a support request or an escalation of user A leaves, for
\* every other user B, the pointer of B, the rows of B and the list the
\* index returns for B, and the offers B owns as they were, and gives B no
\* new offer.
C23_OtherUsersUntouched ==
    [][\A i \in Slots :
         (inv'[i] # inv[i] /\ inv'[i].kind \in {"handle", "escalate"})
         => \A B \in Users \ {inv'[i].user} :
               /\ user_tickets'[B] = user_tickets[B]
               /\ RowsIn(tickets', B) = RowsIn(tickets, B)
               /\ get_user_tickets(tickets', ToString(B))
                    = get_user_tickets(tickets, ToString(B))
               /\ \A m \in DOMAIN pending_tickets :
                     pending_tickets[m].user_id = B
                        => (/\ m \in DOMAIN pending_tickets'
                            /\ pending_tickets'[m] = pending_tickets[m])
               /\ \A m \in DOMAIN pending_tickets' \ DOMAIN pending_tickets :
                     pending_tickets'[m].user_id # B]_vars

====
